---- MODULE Spec2Model ----
(***************************************************************************)
(* Model of the fish-tracking batch pipeline.                              *)
(*   backend_python/tracking/No_GUI.py          run_tracking (orchestrator) *)
(*   backend_python/tracking/tracker_wrapper.py process_video (one job)     *)
(*   backend_python/tracking/tracker.py         FishTracker                 *)
(*   backend_python/tracking/distance_calculator.py                        *)
(* The specifications of the module:                                       *)
(*   Spec         the batch orchestrator, its worker jobs, the summary     *)
(*   FairSpec     Spec with fair scheduling of its threads                 *)
(*   TrackerSpec  one FishTracker consuming the frames of one video        *)
(*   DistanceSpec one call of calculate_total_distance                     *)
(***************************************************************************)
EXTENDS FiniteSets, Integers, Sequences, TLC

VARIABLES
    \* ---- run_tracking (No_GUI.py) ----
    video_folder_ok,  \* os.path.isdir(video_folder)
    output_folder_ok, \* os.path.isdir(output_folder)
    listing,          \* os.listdir(video_folder)
    video_files,      \* the sorted list of recognized videos
    pc,               \* position of the orchestrator thread
    batch_start,      \* loop variable of line 37 (0-based)
    next_submit,      \* number of jobs of the current batch already submitted
    yielded,          \* futures already yielded by as_completed in this batch
    logfile,          \* "unopened" | "open" | "closed"
    log,              \* lines of the run log, in file order
    writing,          \* logfile.write calls in progress: [by, line], by the
                      \* calling thread ("main" or "worker")
    \* ---- process_video / FishTracker per job (index into video_files) ----
    job,              \* job state per video index
    written,          \* output files on disk: set of [path, by]
    summary,          \* outcome of calculate_summary after the run
    \* ---- one FishTracker over one frame sequence (TrackerSpec) ----
    cap,              \* "open" | "released"
    last_bbox,
    no_movement_frames,
    centroid_data,
    valid_frame,
    hist,             \* per processed frame: what was detected and appended
    csv_file,         \* rows of data/<video_name>.csv (<<>>: not written)
    \* ---- one call of calculate_total_distance (DistanceSpec) ----
    dist

vars == <<video_folder_ok, output_folder_ok, listing, video_files, pc,
          batch_start, next_submit, yielded, logfile, log, writing,
          job, written, summary,
          cap, last_bbox, no_movement_frames, centroid_data, valid_frame, hist,
          csv_file, dist>>

batchVars == <<video_folder_ok, output_folder_ok, listing, video_files, pc,
               batch_start, next_submit, yielded, logfile, log, writing,
               job, written, summary>>

trackerVars == <<cap, last_bbox, no_movement_frames, centroid_data,
                 valid_frame, hist, csv_file>>

(***************************************************************************)
(* Bounds and program constants                                            *)
(***************************************************************************)
\* No_GUI.py:8 sets BATCH_SIZE = 10; the model runs the same code with a
\* smaller pool so that several batches fit in a small folder.
BATCH_SIZE == 2

\* tracker.py:16
max_no_movement_frames == 10

\* tracker.py:59 (contours below this area are skipped)
MIN_AREA == 500

\* frames of one video, and genuine detections among them
MaxFrames == 14
MaxDetections == 2

\* data rows of one trajectory table, and the frame_skip values tried
MaxRows == 5
MaxSkip == 2

\* distance_calculator.py:10-11  real_width_cm, real_height_cm
REAL_WIDTH_CM == 28
REAL_HEIGHT_CM == 14

(***************************************************************************)
(* File names.  A name is stem + "." + ext with a one-letter stem, so the  *)
(* string order used by sorted() is the order of (stem, ext) in ASCII.     *)
(***************************************************************************)
F(s, e) == [stem |-> s, ext |-> e]

FolderUniverse ==
    {F("a", "avi"), F("a", "mp4"), F("b", "MP4"), F("c", "mov"), F("c", "txt")}

\* str.lower() on the extensions that occur
Lower(e) == IF e = "MP4" THEN "mp4" ELSE e

\* a filter that takes every file of the folder for a video
IsVideoAnyFile(f) == TRUE

\* No_GUI.py:21  f.lower().endswith((".mp4", ".avi", ".mov"))
IsVideo(f) == Lower(f.ext) \in {"mp4", "avi", "mov"}

\* ASCII order of the one-letter stems and of the extensions
StemRank(s) == CASE s = "a" -> 1 [] s = "b" -> 2 [] s = "c" -> 3
ExtRank(e) ==
    CASE e = "MP4" -> 1 [] e = "avi" -> 2 [] e = "mov" -> 3
      [] e = "mp4" -> 4 [] e = "txt" -> 5

\* string comparison of two file names (same folder prefix)
NameLess(f, g) ==
    \/ StemRank(f.stem) < StemRank(g.stem)
    \/ f.stem = g.stem /\ ExtRank(f.ext) < ExtRank(g.ext)

\* No_GUI.py:18-22  sorted([... for f in os.listdir(...) if ...])
RECURSIVE SortNames(_)
SortNames(S) ==
    IF S = {} THEN <<>>
    ELSE LET m == CHOOSE f \in S : \A g \in S \ {f} : NameLess(f, g)
         IN  <<m>> \o SortNames(S \ {m})

DiscoverVideos(files) == SortNames({f \in files : IsVideo(f)})

\* tracker.py:102  os.path.splitext(os.path.basename(video_path))[0]
video_name(f) == f.stem

\* tracker.py:103 and 121
csv_path(f) == <<"data", video_name(f), "csv">>
heatmap_path(f) == <<"heatmaps", video_name(f), "png">>

(***************************************************************************)
(* Batch helpers                                                           *)
(***************************************************************************)
Min(a, b) == IF a < b THEN a ELSE b

total == Len(video_files)

\* a slice that is one video too long
BatchIdxOneMore(bs) == (bs + 1) .. Min(bs + BATCH_SIZE + 1, total)

\* indices (1-based) of video_files[batch_start : batch_start + BATCH_SIZE]
BatchIdx(bs) == (bs + 1) .. Min(bs + BATCH_SIZE, total)

\* No_GUI.py:39
batch_names(bs) == [k \in 1 .. Cardinality(BatchIdx(bs)) |-> video_files[bs + k]]

\* the batch (0-based number) a video index belongs to
BatchOf(i) == (i - 1) \div BATCH_SIZE

NoResult == [kind |-> "none", status |-> "none", name |-> F("-", "-")]

\* submits counts the executor.submit calls made for the video
NewJob == [st |-> "new", valid_frame |-> FALSE, result |-> NoResult,
           opened |-> FALSE, fault |-> "none", submits |-> 0]

Line(k, ns, r, who) == [kind |-> k, names |-> ns, result |-> r, by |-> who]

(***************************************************************************)
(* process_video and the FishTracker calls it makes, as seen by the batch  *)
(***************************************************************************)
\* process_video without its try/except: the exception reaches the future
ProcessVideoResultUncaught(f, raised) ==
    IF raised
    THEN [kind |-> "exception", status |-> "none", name |-> f]
    ELSE [kind |-> "value", status |-> "Success", name |-> f]

\* tracker_wrapper.py:14-24  the value the future of one job ends with.
\* raised: an exception escaped FishTracker(...), run() or save_results().
ProcessVideoResult(f, raised) ==
    IF raised
    THEN [kind |-> "value", status |-> "Failed", name |-> f]
    ELSE [kind |-> "value", status |-> "Success", name |-> f]

\* tracker.py:80-95  valid_frame is set only inside the read loop, which is
\* entered only while cap.isOpened() and left on the first failed read.
RunValidFrame(opened, has_frames) == opened /\ has_frames

\* tracker.py:97-122  files save_results leaves on disk.  fault names the
\* statement that raised: "csv" (opening the table), "png" (building or
\* writing the heatmap, after the table was written) or "none".
SaveResultsFiles(f, valid, fault) ==
    IF ~valid THEN {}
    ELSE IF fault = "csv" THEN {}
    ELSE IF fault = "png" THEN {csv_path(f)}
    ELSE {csv_path(f), heatmap_path(f)}

\* tracker.py:98-100  save_results returns early (None) without raising;
\* otherwise it raises exactly when one of its statements faults.
SaveResultsRaises(valid, fault) == valid /\ fault # "none"

\* a worker that appends its own result line to the run log
WorkerLogWritesOwnLine(j, r) ==
    {[by |-> "worker", line |-> Line("Completed", <<video_files[j]>>, r, "worker")]}

\* tracker_wrapper.py:13-24  log lines a worker writes itself: none.
WorkerLogWrites(j, r) == {}

\* tracker_wrapper.py:19-20  FishTracker(...) and tracker.run()
JobTrack(j) ==
    /\ j \in DOMAIN job
    /\ job[j].st = "submitted"
    /\ \E fault \in {"none", "track"}, opened \in BOOLEAN, has_frames \in BOOLEAN :
         IF fault = "track"
         THEN job' = [job EXCEPT ![j] =
                        [st |-> "done", valid_frame |-> FALSE,
                         result |-> ProcessVideoResult(video_files[j], TRUE),
                         opened |-> opened, fault |-> "track",
                         submits |-> job[j].submits]]
         ELSE job' = [job EXCEPT ![j] =
                        [st |-> "tracked",
                         valid_frame |-> RunValidFrame(opened, has_frames),
                         result |-> NoResult,
                         opened |-> opened, fault |-> "none",
                         submits |-> job[j].submits]]
    /\ UNCHANGED <<video_folder_ok, output_folder_ok, listing, video_files, pc,
                   batch_start, next_submit, yielded, logfile, log, writing,
                   written>>
    /\ UNCHANGED <<summary, dist>>
    /\ UNCHANGED trackerVars

\* tracker_wrapper.py:21-24  tracker.save_results() and the return
JobSave(j) ==
    /\ j \in DOMAIN job
    /\ job[j].st = "tracked"
    /\ \E fault \in {"none", "csv", "png"} :
         LET f == video_files[j]
             v == job[j].valid_frame
             r == ProcessVideoResult(f, SaveResultsRaises(v, fault))
         IN  /\ written' = written \cup
                     {[path |-> p, by |-> j] : p \in SaveResultsFiles(f, v, fault)}
             /\ job' = [job EXCEPT ![j].st = "done", ![j].result = r,
                                   ![j].fault = IF SaveResultsRaises(v, fault)
                                                THEN fault ELSE "none"]
             /\ writing' = writing \cup WorkerLogWrites(j, r)
    /\ UNCHANGED <<video_folder_ok, output_folder_ok, listing, video_files, pc,
                   batch_start, next_submit, yielded, logfile, log>>
    /\ UNCHANGED <<summary, dist>>
    /\ UNCHANGED trackerVars

(***************************************************************************)
(* run_tracking                                                            *)
(***************************************************************************)
\* the orchestrator thread is inside no logfile.write call
MainIdle == \A w \in writing : w.by # "main"

MainWrite(ln) == writing' = writing \cup {[by |-> "main", line |-> ln]}

\* No_GUI.py:10-36  folder checks, discovery, opening the log and the pool
Discover ==
    /\ pc = "entry"
    /\ IF ~video_folder_ok \/ ~output_folder_ok
       THEN /\ pc' = "exit1"
            /\ UNCHANGED <<video_files, job, logfile>>
       ELSE LET vf == DiscoverVideos(listing)
            IN  IF vf = <<>>
                THEN /\ pc' = "exit1"
                     /\ UNCHANGED <<video_files, job, logfile>>
                ELSE /\ video_files' = vf
                     /\ job' = [i \in 1 .. Len(vf) |-> NewJob]
                     /\ logfile' = "open"
                     /\ pc' = "batch"
    /\ UNCHANGED <<video_folder_ok, output_folder_ok, listing, batch_start,
                   next_submit, yielded, log, writing, written>>
    /\ UNCHANGED <<summary, dist>>
    /\ UNCHANGED trackerVars

\* No_GUI.py:37-42  take the next batch and write its start line
StartBatch ==
    /\ pc = "batch"
    /\ MainIdle
    /\ batch_start < total
    /\ MainWrite(Line("Starting", batch_names(batch_start), NoResult, "main"))
    /\ next_submit' = 0
    /\ yielded' = {}
    /\ pc' = "submit"
    /\ UNCHANGED <<video_folder_ok, output_folder_ok, listing, video_files,
                   batch_start, logfile, log, job, written>>
    /\ UNCHANGED <<summary, dist>>
    /\ UNCHANGED trackerVars

\* No_GUI.py:44  executor.submit for the next video of the batch; the pool
\* has BATCH_SIZE workers, so a submitted job may start at once.
Submit ==
    /\ pc = "submit"
    /\ MainIdle
    /\ LET j == batch_start + next_submit + 1
       IN  /\ j \in BatchIdx(batch_start)
           /\ job' = [job EXCEPT ![j].st = "submitted",
                                 ![j].submits = @ + 1]
           /\ next_submit' = next_submit + 1
           /\ pc' = IF j + 1 \in BatchIdx(batch_start) THEN "submit" ELSE "collect"
    /\ UNCHANGED <<video_folder_ok, output_folder_ok, listing, video_files,
                   batch_start, yielded, logfile, log, writing, written>>
    /\ UNCHANGED <<summary, dist>>
    /\ UNCHANGED trackerVars

\* an as_completed that never yields a future whose job failed
CompletedOnlySuccess(bs) ==
    {j \in BatchIdx(bs) : job[j].st = "done" /\ job[j].result.status = "Success"}
        \ yielded

\* No_GUI.py:46  futures as_completed may yield next
Completed(bs) == {j \in BatchIdx(bs) : job[j].st = "done"} \ yielded

\* leaving the as_completed loop after the first completed future
AllYieldedAfterFirst(bs) == yielded # {}

\* No_GUI.py:46  as_completed is exhausted
AllYielded(bs) == yielded = BatchIdx(bs)

\* No_GUI.py:47-53  the message for one yielded future
CompletionLine(j) ==
    IF job[j].result.kind = "value"
    THEN Line("Completed", <<video_files[j]>>, job[j].result, "main")
    ELSE Line("Error", <<video_files[j]>>, job[j].result, "main")

\* No_GUI.py:46-55  one iteration of the as_completed loop
Collect ==
    /\ pc = "collect"
    /\ MainIdle
    /\ \E j \in Completed(batch_start) :
         /\ MainWrite(CompletionLine(j))
         /\ yielded' = yielded \cup {j}
    /\ UNCHANGED <<video_folder_ok, output_folder_ok, listing, video_files, pc,
                   batch_start, next_submit, logfile, log, job, written>>
    /\ UNCHANGED <<summary, dist>>
    /\ UNCHANGED trackerVars

\* No_GUI.py:57-58 and the loop increment of line 37
FinishBatch ==
    /\ pc = "collect"
    /\ MainIdle
    /\ AllYielded(batch_start)
    /\ MainWrite(Line("Finished", batch_names(batch_start), NoResult, "main"))
    /\ batch_start' = batch_start + BATCH_SIZE
    /\ pc' = "batch"
    /\ UNCHANGED <<video_folder_ok, output_folder_ok, listing, video_files,
                   next_submit, yielded, logfile, log, job, written>>
    /\ UNCHANGED <<summary, dist>>
    /\ UNCHANGED trackerVars

\* a loop that stops one batch early
LoopDoneEarly == batch_start + BATCH_SIZE >= total

\* No_GUI.py:37  range(0, total, BATCH_SIZE) is exhausted
LoopDone == batch_start >= total

\* No_GUI.py:34-36, 60-61  the loop is over: leave both with-blocks
\* (executor shutdown, logfile close) and return
CloseLog ==
    /\ pc = "batch"
    /\ MainIdle
    /\ LoopDone
    /\ logfile' = "closed"
    /\ pc' = "done"
    /\ UNCHANGED <<video_folder_ok, output_folder_ok, listing, video_files,
                   batch_start, next_submit, yielded, log, writing, job, written>>
    /\ UNCHANGED <<summary, dist>>
    /\ UNCHANGED trackerVars

\* a logfile.write call completes: the line reaches the file.  A write on
\* a file that is not open raises ValueError in the calling thread.
CompleteWrite ==
    /\ \E w \in writing :
         /\ writing' = writing \ {w}
         /\ IF logfile = "open"
            THEN /\ log' = Append(log, w.line)
                 /\ pc' = pc
            ELSE /\ log' = log
                 /\ pc' = IF w.by = "main" THEN "crashed" ELSE pc
    /\ UNCHANGED <<video_folder_ok, output_folder_ok, listing, video_files,
                   batch_start, next_submit, yielded, logfile, job, written>>
    /\ UNCHANGED <<summary, dist>>
    /\ UNCHANGED trackerVars

(***************************************************************************)
(* calculate_summary (distance_calculator.py), run by __main__ after       *)
(* run_tracking has returned.  The videos folder it looks into is taken to *)
(* be the input folder of the run, on a file system that ignores case.     *)
(***************************************************************************)
NotRun == [state |-> "not_run", order |-> <<>>, rows |-> <<>>]

DistOff == [pc |-> "off"]

\* distance_calculator.py:92  the CSV files of <output>/data, by name
CsvNames == {w.path[2] : w \in {x \in written : x.path[1] = "data"}}

\* os.listdir gives the names in some order
Orders(S) ==
    {q \in [1 .. Cardinality(S) -> S] :
        \A a, b \in 1 .. Cardinality(S) : q[a] = q[b] => a = b}

\* distance_calculator.py:100-103  os.path.exists(videos_dir/<name>.mp4)
PairedVideoExists(name) ==
    \E f \in listing : f.stem = name /\ Lower(f.ext) = "mp4"

\* distance_calculator.py:97-111  the result rows; unopenable: the names
\* for which calculate_total_distance returns None
RECURSIVE SummaryRows(_, _)
SummaryRows(order, unopenable) ==
    IF order = <<>> THEN <<>>
    ELSE LET name == Head(order)
             rest == SummaryRows(Tail(order), unopenable)
         IN  IF ~PairedVideoExists(name) THEN rest
             ELSE IF name \in unopenable
                  THEN <<[name |-> name, value |-> "Error"]>> \o rest
                  ELSE <<[name |-> name, value |-> "distance"]>> \o rest

\* No_GUI.py:83-86 and distance_calculator.py:82-120
Summarize ==
    /\ pc = "done"
    /\ summary = NotRun
    /\ IF CsvNames = {}
       THEN summary' = [state |-> "none", order |-> <<>>, rows |-> <<>>]
       ELSE \E order \in Orders(CsvNames), unopenable \in SUBSET CsvNames :
              summary' = [state |-> "written", order |-> order,
                          rows |-> SummaryRows(order, unopenable)]
    /\ UNCHANGED <<video_folder_ok, output_folder_ok, listing, video_files, pc,
                   batch_start, next_submit, yielded, logfile, log, writing,
                   job, written, dist>>
    /\ UNCHANGED trackerVars

(***************************************************************************)
(* FishTracker over the frames of one video (tracker.py)                   *)
(* A frame is given by the contours the segmentation yields for it, in     *)
(* enumeration order: each with its area and bounding rectangle (x,y,w,h). *)
(* centroid_data rows are kept as (cx, cy); the wall-clock column, which   *)
(* no step reads back, is left out, and self.positions holds the same      *)
(* pairs in the same order.                                                *)
(***************************************************************************)
NoBox == <<>>

BoxA == <<2, 2, 4, 6>>
BoxB == <<7, 1, 5, 3>>

C(a, b) == [area |-> a, bbox |-> b]

FrameInputs ==
    { <<>>,
      <<C(120, BoxA)>>,
      <<C(499, BoxB), C(500, BoxA)>>,
      <<C(900, BoxB), C(2000, BoxA)>> }

\* tracker.py:58-67  the first contour with area >= 500, or none
RECURSIVE FirstQualifying(_)
FirstQualifying(contours) ==
    IF contours = <<>> THEN NoBox
    ELSE IF Head(contours).area < MIN_AREA THEN FirstQualifying(Tail(contours))
    ELSE Head(contours).bbox

\* tracker.py:62 and 71  cx, cy = x + w // 2, y + h // 2
Centroid(b) == <<b[1] + b[3] \div 2, b[2] + b[4] \div 2>>

\* a tracker that keeps filling in however long the gap is
SynthesizesAlways(detected, last, n) == ~detected /\ last # NoBox

\* tracker.py:69  the frame is filled in from last_bbox
Synthesizes(detected, last, n) ==
    ~detected /\ last # NoBox /\ n <= max_no_movement_frames

\* a streak that counts every frame without a detection
NextStreakEveryGap(detected, last, n) == IF detected THEN 0 ELSE n + 1

\* a streak that is never reset and counts every frame without a detection
NextStreakUnbounded(detected, last, n) == IF detected THEN n ELSE n + 1

\* process_frame without the "elif detected" reset
NextStreakNoReset(detected, last, n) ==
    IF Synthesizes(detected, last, n) THEN n + 1 ELSE n

\* tracker.py:69-76  no_movement_frames after the frame
NextStreak(detected, last, n) ==
    IF Synthesizes(detected, last, n) THEN n + 1
    ELSE IF detected THEN 0
    ELSE n

\* tracker.py:57-76  points appended to the trail by one frame
FramePoints(det, last, n) ==
    IF det # NoBox THEN <<Centroid(det)>>
    ELSE IF Synthesizes(FALSE, last, n) THEN <<Centroid(last)>>
    ELSE <<>>

\* a log_centroid that puts the new point in front
log_centroid_front(data, pt) == <<pt>> \o data

\* tracker.py:38-42  log_centroid appends one row
log_centroid(data, pt) == Append(data, pt)

\* tracker.py:64 and 73  process_frame calls log_centroid at most once
LogPoints(data, pts) ==
    IF pts = <<>> THEN data ELSE log_centroid(data, pts[1])

Detections == Cardinality({i \in 1 .. Len(hist) : hist[i].det # NoBox})

\* tracker.py:48-78  process_frame
process_frame(contours) ==
    LET det  == FirstQualifying(contours)
        last == IF det # NoBox THEN det ELSE last_bbox
        pts  == FramePoints(det, last_bbox, no_movement_frames)
        n    == NextStreak(det # NoBox, last, no_movement_frames)
    IN  /\ det # NoBox => Detections < MaxDetections
        /\ centroid_data' = LogPoints(centroid_data, pts)
        /\ last_bbox' = last
        /\ no_movement_frames' = n
        /\ hist' = Append(hist, [det |-> det, pts |-> pts, streak |-> n,
                                 last |-> last])

\* tracker.py:81-86  one iteration of the read loop with ret = True
RunFrame ==
    /\ cap = "open"
    /\ Len(hist) < MaxFrames
    /\ \E contours \in FrameInputs :
         /\ valid_frame' = TRUE
         /\ process_frame(contours)
    /\ UNCHANGED <<cap, csv_file, dist>>
    /\ UNCHANGED batchVars

\* tracker.py:81-84, 93  the loop ends (capture not opened, or a failed
\* read) and the capture is released
RunEnd ==
    /\ cap \in {"open", "failed"}
    /\ cap' = "released"
    /\ UNCHANGED <<last_bbox, no_movement_frames, centroid_data, valid_frame,
                   hist, csv_file, dist>>
    /\ UNCHANGED batchVars

\* tracker.py:105-107  the table: header row, then the rows of
\* centroid_data (the time column is left out as in centroid_data)
CsvRows(data) == <<<<"Centroid_X", "Centroid_Y">>>> \o data

\* tracker.py:97-107  save_results after run(): nothing is written without
\* a valid frame, otherwise the table is written
SaveResults ==
    /\ cap = "released"
    /\ cap' = "saved"
    /\ csv_file' = IF valid_frame THEN CsvRows(centroid_data) ELSE <<>>
    /\ UNCHANGED <<last_bbox, no_movement_frames, centroid_data, valid_frame,
                   hist, dist>>
    /\ UNCHANGED batchVars

(***************************************************************************)
(* calculate_total_distance (distance_calculator.py)                       *)
(* A cell is what csv.DictReader hands to int(): an integer literal, a     *)
(* string int() rejects ("abc", "1.5" or ""), or None for a field the row  *)
(* is too short to have.                                                   *)
(***************************************************************************)
Num(v) == [k |-> "int", v |-> v]
Text == [k |-> "text", v |-> 0]
Absent == [k |-> "absent", v |-> 0]

Row(x, y) == [x |-> x, y |-> y]

\* the coordinates are chosen so that every distance is a whole number
RowInputs ==
    { Row(Num(0), Num(0)), Row(Num(3), Num(0)), Row(Num(3), Num(4)),
      Row(Text, Num(4)), Row(Num(3), Absent) }

RECURSIVE Tables(_)
Tables(n) ==
    IF n = 0 THEN {<<>>}
    ELSE LET T == Tables(n - 1)
         IN  T \cup {Append(t, r) : t \in {u \in T : Len(u) = n - 1}, r \in RowInputs}

\* the frame sizes cap.get reports
FrameSizes == {<<28, 14>>, <<56, 14>>}

\* distance_calculator.py:43-48  reading the two centroid fields of a row:
\* "point", "skip" (KeyError or ValueError, caught in the loop) or "abort"
\* (int(None) raises TypeError, which only the outer handler catches)
ParseRow(row, has_cols) ==
    IF ~has_cols THEN "skip"
    ELSE IF row.x.k = "absent" THEN "abort"
    ELSE IF row.x.k = "text" THEN "skip"
    ELSE IF row.y.k = "absent" THEN "abort"
    ELSE IF row.y.k = "text" THEN "skip"
    ELSE "point"

\* distance_calculator.py:41  idx % frame_skip != 0 -> continue (idx 0-based)
Kept(i, frame_skip) == (i - 1) % frame_skip = 0

\* distance_calculator.py:36-52  the loop over the rows from row i on;
\* acc: the points so far.  [ok, points]
RECURSIVE ReadPoints(_, _, _, _, _)
ReadPoints(rows, has_cols, frame_skip, i, acc) ==
    IF i > Len(rows) THEN [ok |-> TRUE, points |-> acc]
    ELSE IF ~Kept(i, frame_skip)
         THEN ReadPoints(rows, has_cols, frame_skip, i + 1, acc)
    ELSE LET o == ParseRow(rows[i], has_cols)
         IN  IF o = "abort" THEN [ok |-> FALSE, points |-> acc]
             ELSE IF o = "skip"
                  THEN ReadPoints(rows, has_cols, frame_skip, i + 1, acc)
             ELSE ReadPoints(rows, has_cols, frame_skip, i + 1,
                             Append(acc, <<rows[i].x.v, rows[i].y.v>>))

\* math.sqrt on the squares that occur
Sqrt(n) == CHOOSE r \in 0 .. n : r * r = n

\* distance_calculator.py:59  length of one segment
Segment(a, b) ==
    Sqrt((b[1] - a[1]) * (b[1] - a[1]) + (b[2] - a[2]) * (b[2] - a[2]))

\* distance_calculator.py:58-61  sum over consecutive points
RECURSIVE PixelDistance(_)
PixelDistance(points) ==
    IF Len(points) < 2 THEN 0
    ELSE Segment(points[1], points[2]) + PixelDistance(Tail(points))

None == [kind |-> "None", num |-> 0, den |-> 1]

Value(n, d) == [kind |-> "value", num |-> n, den |-> d]

\* distance_calculator.py:27-67  the returned value, as the fraction
\* num/den of centimetres:
\*   pixel_to_cm = (real_width_cm / w + real_height_cm / h) / 2
DistanceResult(opened, size, rows, has_cols, frame_skip) ==
    IF ~opened THEN None
    ELSE LET r == ReadPoints(rows, has_cols, frame_skip, 1, <<>>)
             w == size[1]
             h == size[2]
         IN  IF ~r.ok THEN None
             ELSE IF Len(r.points) < 2 THEN Value(0, 1)
             ELSE Value(PixelDistance(r.points)
                            * (REAL_WIDTH_CM * h + REAL_HEIGHT_CM * w),
                        2 * w * h)

\* distance_calculator.py:7-67  one call
CalculateTotalDistance ==
    /\ dist.pc = "call"
    /\ dist' = [dist EXCEPT
                  !.pc = "returned",
                  !.points = ReadPoints(dist.rows, dist.has_cols,
                                        dist.frame_skip, 1, <<>>).points,
                  !.result = DistanceResult(dist.opened, dist.size, dist.rows,
                                            dist.has_cols, dist.frame_skip)]
    /\ UNCHANGED batchVars
    /\ UNCHANGED trackerVars

(***************************************************************************)
(* Specifications                                                          *)
(***************************************************************************)
\* tracker.py:14-19  fields of a new FishTracker
TrackerFields ==
    /\ last_bbox = NoBox
    /\ no_movement_frames = 0
    /\ centroid_data = <<>>
    /\ valid_frame = FALSE
    /\ hist = <<>>
    /\ csv_file = <<>>

BatchFields ==
    /\ video_files = <<>>
    /\ batch_start = 0
    /\ next_submit = 0
    /\ yielded = {}
    /\ logfile = "unopened"
    /\ log = <<>>
    /\ writing = {}
    /\ job = <<>>
    /\ written = {}
    /\ summary = NotRun

\* run_tracking is entered with some folder contents
Init ==
    /\ video_folder_ok \in BOOLEAN
    /\ output_folder_ok \in BOOLEAN
    /\ listing \in SUBSET FolderUniverse
    /\ pc = "entry"
    /\ BatchFields
    /\ cap = "none"
    /\ TrackerFields
    /\ dist = DistOff

Next ==
    \/ Discover
    \/ StartBatch
    \/ Submit
    \/ \E j \in DOMAIN job : JobTrack(j)
    \/ \E j \in DOMAIN job : JobSave(j)
    \/ Collect
    \/ FinishBatch
    \/ CloseLog
    \/ CompleteWrite
    \/ Summarize

Spec == Init /\ [][Next]_vars

\* steps of the orchestrator thread
MainStep ==
    \/ Discover
    \/ StartBatch
    \/ Submit
    \/ Collect
    \/ FinishBatch
    \/ CloseLog
    \/ CompleteWrite

\* steps of the pool worker that runs job j
WorkerStep(j) == JobTrack(j) \/ JobSave(j)

\* The orchestrator thread and every pool worker keep being scheduled, and
\* every call a job makes returns or raises (No_GUI.py:36 gives each job of
\* a batch its own worker thread).
FairSpec ==
    /\ Spec
    /\ WF_vars(MainStep)
    /\ \A j \in 1 .. Cardinality(FolderUniverse) : WF_vars(WorkerStep(j))

\* FishTracker(video_path, ...) was constructed; the capture opened or not
TrackerInit ==
    /\ video_folder_ok = TRUE
    /\ output_folder_ok = TRUE
    /\ listing = {}
    /\ pc = "off"
    /\ BatchFields
    /\ cap \in {"open", "failed"}
    /\ TrackerFields
    /\ dist = DistOff

TrackerNext ==
    \/ RunFrame
    \/ RunEnd
    \/ SaveResults

TrackerSpec == TrackerInit /\ [][TrackerNext]_vars

\* calculate_total_distance is called on some table and video
DistanceInit ==
    /\ video_folder_ok = TRUE
    /\ output_folder_ok = TRUE
    /\ listing = {}
    /\ pc = "off"
    /\ BatchFields
    /\ cap = "none"
    /\ TrackerFields
    /\ dist \in [pc : {"call"}, opened : BOOLEAN, size : FrameSizes,
                 has_cols : BOOLEAN, frame_skip : 1 .. MaxSkip,
                 rows : Tables(MaxRows), points : {<<>>}, result : {None}]

DistanceNext == CalculateTotalDistance

DistanceSpec == DistanceInit /\ [][DistanceNext]_vars

(***************************************************************************)
(* Properties of run_tracking (checked under Spec)                         *)
(***************************************************************************)
Jobs == DOMAIN job

Running(j) == job[j].st \in {"submitted", "tracked"}

LinesOf(j, k) ==
    {i \in DOMAIN log : log[i].kind = k /\ log[i].names = <<video_files[j]>>}

\* C1: no job of a later batch is submitted or running before every job of
\* every earlier batch has reached its terminal state.
BatchesStrictlyInOrder ==
    \A j, k \in Jobs :
        (BatchOf(j) < BatchOf(k) /\ job[k].st # "new") => job[j].st = "done"

\* C1 witness: both jobs of the second batch run at the same time, after
\* the first batch is over.
SecondBatchRunsConcurrently ==
    \E j, k \in Jobs :
        /\ j # k /\ BatchOf(j) = 1 /\ BatchOf(k) = 1
        /\ Running(j) /\ Running(k)
        /\ \A m \in Jobs : BatchOf(m) = 0 => job[m].st = "done"

\* C2: a finished job holds a returned message naming its own video, which
\* is a failure message exactly when that job itself raised; when the run
\* is over every job has finished.
PerJobIsolation ==
    \A j \in Jobs :
        /\ job[j].st = "done" =>
              /\ job[j].result.kind = "value"
              /\ job[j].result.name = video_files[j]
              /\ (job[j].result.status = "Failed") <=> (job[j].fault # "none")
              /\ job[j].result.status \in {"Failed", "Success"}
        /\ pc = "done" => job[j].st = "done"

\* C2 witness: the run is over; one job raised, another job of the same
\* batch and a job of a later batch succeeded.
FailureBesideSuccesses ==
    /\ pc = "done"
    /\ \E j, k, m \in Jobs :
        /\ j # k /\ BatchOf(j) = BatchOf(k) /\ BatchOf(m) > BatchOf(j)
        /\ job[j].fault # "none" /\ job[j].result.status = "Failed"
        /\ job[k].result.status = "Success"
        /\ job[m].result.status = "Success"

\* C3 (as claimed): when the run is over, a job that raised has exactly one
\* error line and no completion line, and a job that did not raise has
\* exactly one success line.
FaultIsOneErrorLine ==
    pc = "done" =>
        \A j \in Jobs :
            IF job[j].fault # "none"
            THEN /\ Cardinality(LinesOf(j, "Error")) = 1
                 /\ LinesOf(j, "Completed") = {}
            ELSE /\ Cardinality(LinesOf(j, "Completed")) = 1
                 /\ LinesOf(j, "Error") = {}
                 /\ \A i \in LinesOf(j, "Completed") :
                        log[i].result.status = "Success"

\* the layout of the run log: every batch takes a start line, one line per
\* job and a finish line; all batches before the last are full
SegLen == BATCH_SIZE + 2
SegOf(p) == (p - 1) \div SegLen
PosInSeg(p) == (p - 1) % SegLen
NumBatches == (total + BATCH_SIZE - 1) \div BATCH_SIZE
FullLogLen == total + 2 * NumBatches

LineFits(p) ==
    LET bs == SegOf(p) * BATCH_SIZE
        r  == PosInSeg(p)
        n  == Cardinality(BatchIdx(bs))
    IN  /\ bs < total
        /\ r <= n + 1
        /\ r = 0 => /\ log[p].kind = "Starting"
                    /\ log[p].names = batch_names(bs)
        /\ r = n + 1 => /\ log[p].kind = "Finished"
                        /\ log[p].names = batch_names(bs)
        /\ (1 <= r /\ r <= n) =>
              /\ log[p].kind \in {"Completed", "Error"}
              /\ \E j \in BatchIdx(bs) :
                    /\ log[p].names = <<video_files[j]>>
                    /\ job[j].st = "done"
              /\ \A q \in 1 .. (p - 1) :
                    log[q].kind \in {"Completed", "Error"} =>
                        log[q].names # log[p].names

UnopenedVideoIsNotSuccess ==
    \A j \in Jobs :
        (job[j].st = "done" /\ ~job[j].opened) =>
            job[j].result.status # "Success"

\* C8 (as claimed): a job that reached save_results without a valid frame
\* wrote no file, is not reported as successful, and has no success line.
NoFrameIsFailure ==
    \A j \in Jobs :
        (job[j].st = "done" /\ job[j].fault # "track" /\ ~job[j].valid_frame) =>
            /\ \A w \in written : w.by # j
            /\ job[j].result.status # "Success"
            /\ \A i \in LinesOf(j, "Completed") :
                   log[i].result.status # "Success"

\* C9 (as claimed): no output file is written by two jobs of one batch.
NoSharedOutputFile ==
    \A w1, w2 \in written :
        (w1.path = w2.path /\ BatchOf(w1.by) = BatchOf(w2.by)) => w1.by = w2.by

\* C10: at most one write to the run log is in progress, every write in
\* progress and every line in the file comes from the orchestrator thread.
SingleLogWriter ==
    /\ Cardinality(writing) <= 1
    /\ \A w \in writing : w.by = "main"
    /\ \A i \in DOMAIN log : log[i].by = "main"

\* C10 witness: the orchestrator is inside the write of one job's line
\* while another job of the batch is still saving its results.
WriteWhileJobFinishes ==
    /\ pc = "collect"
    /\ \E w \in writing : w.line.kind = "Completed"
    /\ \E j, k \in BatchIdx(batch_start) :
        /\ j # k
        /\ j \in yielded
        /\ job[k].st = "tracked"

\* C11: once the run log is open, the run eventually returns with every
\* job finished, every batch logged and the log closed, whichever jobs fail
\* (checked under FairSpec).
RunCompletes ==
    (logfile = "open") ~>
        /\ pc = "done"
        /\ logfile = "closed"
        /\ \A j \in Jobs : job[j].st = "done"
        /\ Len(log) = FullLogLen

\* C11 witness: a finished run of two batches in which a job of each batch
\* failed.
RunDoneDespiteFailures ==
    /\ pc = "done"
    /\ logfile = "closed"
    /\ \E j, k \in Jobs :
        /\ BatchOf(j) = 0 /\ BatchOf(k) = 1
        /\ job[j].result.status = "Failed"
        /\ job[k].result.status = "Failed"

\* C12 (as claimed): the summary written after the run has exactly one
\* row, a distance or Error, for every trajectory CSV the run produced,
\* in the listing order of the CSVs.
SummaryRowPerVideo ==
    summary.state # "not_run" =>
        /\ (CsvNames # {}) => summary.state = "written"
        /\ [i \in 1 .. Len(summary.rows) |-> summary.rows[i].name] = summary.order
        /\ \A n \in CsvNames :
              Cardinality({i \in DOMAIN summary.rows :
                              summary.rows[i].name = n}) = 1
        /\ \A i \in DOMAIN summary.rows :
              summary.rows[i].value \in {"distance", "Error"}

\* a folder is missing, or no file of the input folder ends in a
\* recognized extension
ConfigError ==
    \/ ~video_folder_ok
    \/ ~output_folder_ok
    \/ ~ \E f \in listing : f.ext \in {"mp4", "MP4", "avi", "mov"}

\* C13: on a configuration error run_tracking goes from its entry straight
\* to sys.exit(1): no job exists, no output or log is created and the
\* summary step is not run.
ConfigErrorIsFatal ==
    ConfigError =>
        /\ pc \in {"entry", "exit1"}
        /\ job = <<>>
        /\ video_files = <<>>
        /\ logfile = "unopened"
        /\ log = <<>>
        /\ writing = {}
        /\ written = {}
        /\ summary = NotRun

\* C13 witness: both folders exist, the input folder holds only c.txt, and
\* the run has exited with status 1.
ExitedOnFolderWithoutVideos ==
    /\ pc = "exit1"
    /\ video_folder_ok /\ output_folder_ok
    /\ listing = {F("c", "txt")}

(***************************************************************************)
(* Properties of the tracker (checked under TrackerSpec)                   *)
(***************************************************************************)
\* frames i+1 .. i+K exist and none of them has a qualifying region
GapAfter(i, K) ==
    /\ i + K <= Len(hist)
    /\ \A m \in (i + 1) .. (i + K) : hist[m].det = NoBox

\* C5: a detection records its own centroid and leaves the streak at 0,
\* and each of the K <= max_no_movement_frames frames without a region that
\* follow it appends exactly one point, at the centroid of that detection.
OcclusionTolerance ==
    \A i \in DOMAIN hist :
        hist[i].det # NoBox =>
            /\ hist[i].pts = <<Centroid(hist[i].det)>>
            /\ hist[i].streak = 0
            /\ \A K \in 0 .. max_no_movement_frames :
                  GapAfter(i, K) =>
                     \A m \in (i + 1) .. (i + K) :
                        hist[m].pts = <<Centroid(hist[i].det)>>

\* C5 witness: a detection, max_no_movement_frames frames without a region,
\* then a detection of another box.
FullGapThenNewDetection ==
    \E i \in DOMAIN hist :
        /\ hist[i].det # NoBox
        /\ GapAfter(i, max_no_movement_frames)
        /\ i + max_no_movement_frames + 1 = Len(hist)
        /\ hist[Len(hist)].det \notin {NoBox, hist[i].det}
        /\ Len(centroid_data) = Len(hist) - (i - 1)

\* C6 (as claimed): in a longer run of frames without a region, exactly the
\* first max_no_movement_frames frames append a point and the later ones
\* append nothing.
BudgetIsMaxPoints ==
    \A i \in DOMAIN hist :
        hist[i].det # NoBox =>
            \A K \in (max_no_movement_frames + 1) .. MaxFrames :
                GapAfter(i, K) =>
                    \A m \in (i + 1) .. (i + K) :
                        Len(hist[m].pts) =
                            IF m - i <= max_no_movement_frames THEN 1 ELSE 0

(***************************************************************************)
(* Properties of calculate_total_distance (checked under DistanceSpec)     *)
(***************************************************************************)
\* rows that survive downsampling and have two integer centroid fields
UsableRows ==
    {i \in 1 .. Len(dist.rows) :
        /\ (i - 1) % dist.frame_skip = 0
        /\ dist.has_cols
        /\ dist.rows[i].x.k = "int"
        /\ dist.rows[i].y.k = "int"}

\* the points of a set of rows, in row order
RECURSIVE PointsOf(_, _)
PointsOf(I, from) ==
    IF from > Len(dist.rows) THEN <<>>
    ELSE IF from \in I
         THEN <<<<dist.rows[from].x.v, dist.rows[from].y.v>>>> \o PointsOf(I, from + 1)
         ELSE PointsOf(I, from + 1)

\* C14 (as claimed): for a video that opens, fewer than 2 usable points
\* give the distance 0, never the failure result.
FewPointsGiveZero ==
    (dist.pc = "returned" /\ dist.opened /\ Cardinality(UsableRows) < 2) =>
        dist.result = Value(0, 1)

\* C15 (as claimed): for a video that opens, the points used are exactly
\* the usable rows at multiples of frame_skip, in row order, invalid rows
\* are dropped without aborting, and the result is the sum of the segments
\* between consecutive kept points (scaled to centimetres).
DownsamplingUsesKeptRows ==
    (dist.pc = "returned" /\ dist.opened) =>
        /\ dist.points = PointsOf(UsableRows, 1)
        /\ dist.result.kind = "value"
        /\ Len(dist.points) >= 2 =>
              dist.result.num * 2 * dist.size[1] * dist.size[2] =
                 dist.result.den * PixelDistance(PointsOf(UsableRows, 1))
                    * (REAL_WIDTH_CM * dist.size[2] + REAL_HEIGHT_CM * dist.size[1])

(***************************************************************************)
(* Further properties of the tracker (checked under TrackerSpec)           *)
(***************************************************************************)
\* the state the tracker was in when frame i arrived
StreakBefore(i) == IF i = 1 THEN 0 ELSE hist[i - 1].streak
LastBefore(i) == IF i = 1 THEN NoBox ELSE hist[i - 1].last

\* frame i had no detection and a point was filled in from last_bbox
Synthesized(i) == hist[i].det = NoBox /\ hist[i].pts # <<>>

\* frame i had no detection while the tracker was COLD or over its budget
SilentGap(i) ==
    /\ hist[i].det = NoBox
    /\ \/ LastBefore(i) = NoBox
       \/ StreakBefore(i) > max_no_movement_frames

\* C16: the streak is 0 after a frame with a detection, one more than
\* before after a frame whose point was synthesized, and unchanged after
\* every other frame.
StreakFollowsFrames ==
    /\ hist # <<>> => no_movement_frames = hist[Len(hist)].streak
    /\ \A i \in DOMAIN hist :
          hist[i].streak =
             IF hist[i].det # NoBox THEN 0
             ELSE IF Synthesized(i) THEN StreakBefore(i) + 1
             ELSE StreakBefore(i)

\* C16 witness: frames of all three kinds were processed: a detection,
\* synthesized points, a frame over the budget, and frames before the first
\* detection.
AllKindsOfFrames ==
    /\ \E i \in DOMAIN hist : hist[i].det # NoBox /\ i > 1
    /\ \E i \in DOMAIN hist : Synthesized(i) /\ hist[i].streak > 1
    /\ \E i \in DOMAIN hist :
          hist[i].det = NoBox /\ ~Synthesized(i) /\ LastBefore(i) # NoBox

\* C17: a silent gap appends no point and leaves last_bbox and the streak
\* as they were; while no detection has happened the trail is empty.
SilentGapChangesNothing ==
    /\ \A i \in DOMAIN hist :
          SilentGap(i) =>
             /\ hist[i].pts = <<>>
             /\ hist[i].last = LastBefore(i)
             /\ hist[i].streak = StreakBefore(i)
    /\ last_bbox = NoBox => centroid_data = <<>>

\* C17 witness: the last frame came without a detection after the budget
\* was used up, and the video had started with a frame without detection.
GapOverBudget ==
    /\ Len(hist) > max_no_movement_frames + 2
    /\ hist[1].det = NoBox
    /\ SilentGap(Len(hist))
    /\ LastBefore(Len(hist)) # NoBox
    /\ Len(centroid_data) = max_no_movement_frames + 2

\* the points of frames 1 .. n, frame after frame
RECURSIVE FramePointsUpTo(_)
FramePointsUpTo(n) ==
    IF n = 0 THEN <<>> ELSE FramePointsUpTo(n - 1) \o hist[n].pts

\* C18: every frame adds at most one point, the trail is the points of the
\* frames in frame order, never longer than the number of frames, and the
\* rows of the written table are the trail in the same order.
TrailInFrameOrder ==
    /\ \A i \in DOMAIN hist : Len(hist[i].pts) <= 1
    /\ centroid_data = FramePointsUpTo(Len(hist))
    /\ Len(centroid_data) <= Len(hist)
    /\ csv_file # <<>> => Tail(csv_file) = centroid_data

\* C18 witness: a table was written whose rows hold two different points,
\* from a video with more frames than points.
TableWithTwoPoints ==
    /\ cap = "saved"
    /\ Len(csv_file) >= 4
    /\ csv_file[2] # csv_file[Len(csv_file)]
    /\ Len(centroid_data) < Len(hist)

\* C20: the streak stays within 0 .. max_no_movement_frames + 1, and after
\* a frame that left last_bbox set every later frame leaves it set.
StreakBoundedAndActiveKept ==
    /\ 0 <= no_movement_frames
    /\ no_movement_frames <= max_no_movement_frames + 1
    /\ hist # <<>> => last_bbox = hist[Len(hist)].last
    /\ \A i, j \in DOMAIN hist :
          (i < j /\ hist[i].last # NoBox) => hist[j].last # NoBox

\* C20 witness: the streak is at its largest value, with frames processed
\* after it got there.
StreakAtMaximum ==
    /\ no_movement_frames = max_no_movement_frames + 1
    /\ last_bbox # NoBox
    /\ Len(hist) > max_no_movement_frames + 2

(***************************************************************************)
(* Batching (checked under Spec)                                           *)
(***************************************************************************)
\* number of batch-start lines among the first p lines of the log
StartsUpTo(p) == Cardinality({q \in 1 .. p : log[q].kind = "Starting"})

\* the k-th slice of BATCH_SIZE videos of the sorted list
Slice(k) ==
    SubSeq(video_files, (k - 1) * BATCH_SIZE + 1,
           IF k * BATCH_SIZE < total THEN k * BATCH_SIZE ELSE total)

\* C19: the list holds every recognized video of the folder once, in name
\* order; the batches announced are its consecutive non-empty slices of
\* BATCH_SIZE videos (the last may be shorter); every video is submitted at
\* most once, only in its own batch, and exactly once when the run is over;
\* never more than BATCH_SIZE jobs are running.
BatchingCoversEveryVideo ==
    /\ pc \notin {"entry", "exit1"} =>
          /\ {video_files[i] : i \in DOMAIN video_files} =
                {f \in listing : f.ext \in {"mp4", "MP4", "avi", "mov"}}
          /\ \A i, j \in DOMAIN video_files :
                i < j => NameLess(video_files[i], video_files[j])
    /\ \A p \in DOMAIN log :
          log[p].kind = "Starting" =>
             /\ log[p].names = Slice(StartsUpTo(p))
             /\ Len(log[p].names) >= 1
             /\ Len(log[p].names) <= BATCH_SIZE
             /\ StartsUpTo(p) * BATCH_SIZE < total => Len(log[p].names) = BATCH_SIZE
    /\ \A j \in Jobs :
          /\ job[j].submits = IF job[j].st = "new" THEN 0 ELSE 1
          /\ job[j].st # "new" => batch_start = ((j - 1) \div BATCH_SIZE) * BATCH_SIZE
                                   \/ job[j].st = "done"
          /\ pc = "done" => job[j].submits = 1
    /\ Cardinality({j \in Jobs : Running(j)}) <= BATCH_SIZE

\* C19 witness: a finished run of several batches whose last batch is
\* shorter than BATCH_SIZE, every video submitted once.
RunWithShortLastBatch ==
    /\ pc = "done"
    /\ total > BATCH_SIZE
    /\ total % BATCH_SIZE # 0
    /\ \A j \in Jobs : job[j].submits = 1

====
